---------------------------- MODULE Spec2Model ----------------------------
(***************************************************************************)
(* Model of the background serial monitor of ArduinoTaikoController        *)
(* (src/debug/monitor/monitor.py) and of its frame parser                  *)
(* (src/debug/monitor/data.py).                                            *)
(*                                                                         *)
(* Contexts: one controlling context calling start()/stop(), the           *)
(* background threads running _monitor_loop, and the reader contexts       *)
(* calling data, get_data_since, wait_for_new_data, latest_entry and       *)
(* get_latest_parsed_data.  Time is an integer clock (datetime.now()).     *)
(* Every "with self._data_condition:" block is one atomic step: the lock   *)
(* is held for the whole block, so no other block interleaves with it.     *)
(***************************************************************************)
EXTENDS Integers, Sequences, FiniteSets, TLC

(* ------------------------------ bounds --------------------------------- *)
\* largest value of the clock
MaxTime == 2
\* largest number of entries the loop threads append in one behaviour
MaxAppends == 2

(* ------------------------------ inputs --------------------------------- *)
\* the values of data_retention_seconds given to the constructor
Retentions == {0, 1}
\* the values of timeout given to wait_for_new_data
Timeouts == {0, 1}
\* the values of seconds_ago given to get_data_since (the last one exceeds
\* every retention)
Durations == {0, 1, 2}

\* the threads start() can create in one behaviour, in this order
Threads == {1, 2}
\* the reader contexts
Readers == {1, 2}

(* --------------------------- frame parser ------------------------------ *)
\* Text is modelled by its structure: a token is a sequence of one-character
\* strings, a group is the sequence of tokens that split(",") yields.
Digits == {"0", "1", "2", "3", "4", "5", "6", "7", "8", "9"}

\* character classes of the pattern's four groups (the comma is the separator)
RawClass == Digits \cup {" "}
SensorClass == Digits \cup {".", " "}
KeysClass == {"0", "1", " "}
ThreshClass == Digits \cup {"."}

DigitVal(c) ==
    CASE c = "0" -> 0 [] c = "1" -> 1 [] c = "2" -> 2 [] c = "3" -> 3
      [] c = "4" -> 4 [] c = "5" -> 5 [] c = "6" -> 6 [] c = "7" -> 7
      [] c = "8" -> 8 [] OTHER -> 9

\* str.strip() on a token: leading and trailing blanks removed
RECURSIVE StripLeft(_)
StripLeft(tok) ==
    IF tok # <<>> /\ Head(tok) = " " THEN StripLeft(Tail(tok)) ELSE tok

RECURSIVE StripRight(_)
StripRight(tok) ==
    IF tok # <<>> /\ tok[Len(tok)] = " "
    THEN StripRight(SubSeq(tok, 1, Len(tok) - 1))
    ELSE tok

Strip(tok) == StripRight(StripLeft(tok))

AllIn(tok, class) == \A i \in 1..Len(tok) : tok[i] \in class

\* a group ([...]+) matches a span that is not empty and holds only
\* characters of its class and commas
GroupMatches(tokens, class) ==
    /\ ~(Len(tokens) = 1 /\ tokens[1] = <<>>)
    /\ \A i \in 1..Len(tokens) : AllIn(tokens[i], class)

\* the longest prefix of tok made of characters of class ([0-9.]+ is greedy)
RECURSIVE LongestPrefix(_, _)
LongestPrefix(tok, class) ==
    IF tok # <<>> /\ Head(tok) \in class
    THEN <<Head(tok)>> \o LongestPrefix(Tail(tok), class)
    ELSE <<>>

\* int(x) succeeds on a stripped token of the raw class: digits only, not empty
IsInt(tok) == tok # <<>> /\ AllIn(tok, Digits)

\* float(x) succeeds on a stripped token of the sensor class: digits with at
\* most one point, at least one digit
IsFloat(tok) ==
    /\ AllIn(tok, Digits \cup {"."})
    /\ Cardinality({i \in 1..Len(tok) : tok[i] = "."}) <= 1
    /\ \E i \in 1..Len(tok) : tok[i] \in Digits

RECURSIVE IntOf(_)
IntOf(tok) ==
    IF tok = <<>> THEN 0
    ELSE 10 * IntOf(SubSeq(tok, 1, Len(tok) - 1)) + DigitVal(tok[Len(tok)])

RECURSIVE DropTrailingZeros(_)
DropTrailingZeros(tok) ==
    IF tok # <<>> /\ tok[Len(tok)] = "0"
    THEN DropTrailingZeros(SubSeq(tok, 1, Len(tok) - 1))
    ELSE tok

\* the value of float(x): the units and the significant fraction digits
FloatOf(tok) ==
    LET dots == {i \in 1..Len(tok) : tok[i] = "."}
        dot == IF dots = {} THEN Len(tok) + 1 ELSE CHOOSE i \in dots : TRUE
    IN [units |-> IntOf(SubSeq(tok, 1, dot - 1)),
        frac |-> DropTrailingZeros(SubSeq(tok, dot + 1, Len(tok)))]

\* the absent result (None) of the parser
NoReading ==
    [ok |-> FALSE, raw_values |-> <<>>, sensor_values |-> <<>>,
     key_states |-> <<>>, threshold |-> [units |-> 0, frac |-> <<>>]]

\* only the raw values are counted
HasFourValues_raw_only(raw_values, sensor_values, key_states) ==
    Len(raw_values) = 4

\* "Validate we got exactly 4 values for each array"
HasFourValues(raw_values, sensor_values, key_states) ==
    Len(raw_values) = 4 /\ Len(sensor_values) = 4 /\ Len(key_states) = 4

\* parse_debug_message on a message of the shape
\*   <noise> RAW: raw | SENSOR: sensor | KEYS: keys | THRESH: thresh <noise>
\* (labels = FALSE: the labelled skeleton is not in the message)
parse_debug_message(message) ==
    LET thresh == LongestPrefix(StripLeft(message.thresh), ThreshClass)
        matched ==
            /\ message.labels
            /\ GroupMatches(message.raw, RawClass)
            /\ GroupMatches(message.sensor, SensorClass)
            /\ GroupMatches(message.keys, KeysClass)
            /\ thresh # <<>>
        raw == [i \in 1..Len(message.raw) |-> Strip(message.raw[i])]
        sensor == [i \in 1..Len(message.sensor) |-> Strip(message.sensor[i])]
        keys == [i \in 1..Len(message.keys) |-> Strip(message.keys[i])]
    IN  IF ~matched THEN NoReading
        ELSE IF \E i \in 1..Len(raw) : ~IsInt(raw[i]) THEN NoReading
        ELSE IF \E i \in 1..Len(sensor) : ~IsFloat(sensor[i]) THEN NoReading
        ELSE IF ~IsFloat(thresh) THEN NoReading
        ELSE IF ~HasFourValues(raw, sensor, keys) THEN NoReading
        ELSE [ok |-> TRUE,
              raw_values |-> [i \in 1..Len(raw) |-> IntOf(raw[i])],
              sensor_values |-> [i \in 1..Len(sensor) |-> FloatOf(sensor[i])],
              key_states |-> [i \in 1..Len(keys) |-> keys[i] = <<"1">>],
              threshold |-> FloatOf(thresh)]

(* ------------------------- lines on the wire --------------------------- *)
\* what readline() returns: the bytes of one line.  undecodable = TRUE: the
\* line also holds bytes that are no valid UTF-8; empty = TRUE: nothing is
\* left of the line after decode and strip (a read timeout, or blanks).
Message(labels, raw, sensor, keys, thresh) ==
    [labels |-> labels, raw |-> raw, sensor |-> sensor, keys |-> keys,
     thresh |-> thresh]

NoMessage == Message(FALSE, <<<<>>>>, <<<<>>>>, <<<<>>>>, <<>>)

Line(empty, undecodable, message) ==
    [empty |-> empty, undecodable |-> undecodable, message |-> message]

TimeoutLine == Line(TRUE, FALSE, NoMessage)

GoodMessage ==
    Message(TRUE,
            << <<" ", "1", "9">>, <<" ", "8">>, <<" ", "7">>, <<" ", "6", " ">> >>,
            << <<" ", "1", ".", "0">>, <<" ", "4", ".", "2">>, <<" ", "1">>,
               <<" ", "3", ".", "3", " ">> >>,
            << <<" ", "1">>, <<" ", "0">>, <<" ", "1">>, <<" ", "1", " ">> >>,
            <<" ", "0", ".", "0", "0">>)

\* three raw values instead of four
ShortMessage ==
    Message(TRUE,
            << <<"1">>, <<"2">>, <<"3">> >>,
            << <<"1">>, <<"2">>, <<"3">>, <<"4">> >>,
            << <<"1">>, <<"0">>, <<"1">>, <<"0">> >>,
            <<"1">>)

WireLines ==
    { TimeoutLine,
      Line(FALSE, FALSE, GoodMessage),
      Line(FALSE, TRUE, GoodMessage),
      Line(FALSE, FALSE, ShortMessage),
      Line(FALSE, FALSE, NoMessage) }

\* The messages given to parse_debug_message: groups of 1 to 5 values, and
\* groups of 4 values whose first or last token is replaced by another one.
GroupSizes == 1..5
Positions == {1, 4}

RawToken == <<" ", "1", "9">>
SensorToken == <<" ", "4", ".", "2">>
KeysToken == <<" ", "1">>

\* 07, a token padded with blanks, an empty and a blank token, digits
\* separated by a blank, a letter
RawTokens ==
    { <<"0", "7">>, <<" ", "8", " ">>, <<>>, <<" ">>, <<"1", " ", "2">>,
      <<"1", "x">> }
SensorTokens ==
    { <<"3">>, <<"1", ".">>, <<".", "5">>, <<>>, <<".">>,
      <<"1", ".", "2", ".", "3">>, <<"1", " ", "2">> }
KeysTokens ==
    { <<"0">>, <<" ", "0", " ">>, <<>>, <<"1", "1">>, <<"0", " ", "1">>,
      <<"2">> }
ThreshTokens ==
    { <<" ", "0", ".", "0", "0">>, <<"1">>, <<>>, <<".">>,
      <<"1", ".", "2", ".", "3">>, <<"1", ".", "5", "a", "b", "c">> }

Repeat(tok, n) == [i \in 1..n |-> tok]

Groups(tok, others) ==
    {Repeat(tok, n) : n \in GroupSizes}
        \cup {[Repeat(tok, 4) EXCEPT ![i] = other] :
                  i \in Positions, other \in others}

Messages ==
    {Message(labels, raw, sensor, keys, thresh) :
        labels \in BOOLEAN,
        raw \in Groups(RawToken, RawTokens),
        sensor \in Groups(SensorToken, SensorTokens),
        keys \in Groups(KeysToken, KeysTokens),
        thresh \in ThreshTokens}

\* bytes.decode('utf-8', errors='ignore').strip(): the undecodable bytes are
\* dropped and the rest of the line is kept; "" when nothing is left
decode(line) ==
    [empty |-> line.empty, message |-> line.message]

(* ------------------------------ buffer --------------------------------- *)
\* SerialDataEntry; seq is the identity of the entry object (the number of
\* the append that created it)
Entry(timestamp, parsed_data, seq) ==
    [timestamp |-> timestamp, parsed_data |-> parsed_data, seq |-> seq]

\* the entry goes to the head of the list instead of its tail
append_at_head(d, entry) == <<entry>> \o d

\* self._data.append(entry)
append(d, entry) == Append(d, entry)

\* the index (from 1) of the first entry to keep, 1 when the loop over the
\* entries ends without a break
KeepFromIndex(d, cutoff_time) ==
    LET fresh == {i \in 1..Len(d) : d[i].timestamp >= cutoff_time}
    IN  IF fresh = {} THEN 1
        ELSE CHOOSE i \in fresh : \A j \in fresh : i <= j

\* _cleanup_old_data with datetime.now() = now
cleanup_old_data(d, now, retention) ==
    IF d = <<>> THEN d
    ELSE LET keep_from_index == KeepFromIndex(d, now - retention)
         IN  IF keep_from_index > 1
             THEN SubSeq(d, keep_from_index, Len(d))
             ELSE d

\* the filter with > in the place of >=
EntriesSince_strict(d, cutoff_time) ==
    SelectSeq(d, LAMBDA e : e.timestamp > cutoff_time)

\* [entry for entry in self._data if entry.timestamp >= cutoff_time]
EntriesSince(d, cutoff_time) ==
    SelectSeq(d, LAMBDA e : e.timestamp >= cutoff_time)


(* ------------------------------- state --------------------------------- *)
VARIABLES
    clock,              \* datetime.now()
    data_retention,     \* self.data_retention, fixed by the constructor
    data,               \* self._data
    appended,           \* number of entries appended so far (entry identities)
    thread,             \* self._thread: a thread of Threads, 0 for None
    stop_event,         \* self._stop_event
    serial_connection,  \* self._serial_connection: the Serial object opened
                        \* by that thread, 0 for None
    conn,               \* per Serial object: "none", "open" or "closed"
    connected,          \* self._connected
    error_message,      \* self._error_message
    loop_pc,            \* per thread: where _monitor_loop stands
    pending,            \* per thread: the entry built and not yet appended
    ctl_pc,             \* where the controlling context stands in start/stop
    start_result,       \* what the last start() returned
    stopped,            \* a call of stop() has returned since the last thread
                        \* was created (or since construction)
    rpc,                \* per reader: where it stands
    rarg,               \* per reader: cutoff_time / deadline of the wait
    rseen,              \* per reader: value of appended when its wait began
    returned,           \* what the last call of a reader returned
    message,            \* the argument of the last call of parse_debug_message
    parsed,             \* what that call returned
    lock                \* self._data_lock: the context that holds it

vars == <<clock, data_retention, data, appended, thread, stop_event,
          serial_connection, conn, connected, error_message, loop_pc,
          pending, ctl_pc, start_result, stopped, rpc, rarg, rseen, returned,
          message, parsed, lock>>

monitor_vars == <<thread, stop_event, serial_connection, conn, connected,
                  error_message, loop_pc, pending, ctl_pc, start_result,
                  stopped>>
reader_vars == <<rpc, rarg, rseen, returned>>
parser_vars == <<message, parsed>>
loop_frame == <<clock, data_retention, thread, ctl_pc, start_result, stopped,
                parser_vars, lock>>

NoEntry == Entry(0, NoReading, 0)
NoPending ==
    [set |-> FALSE, line |-> TimeoutLine, timestamp |-> 0,
     parsed_data |-> NoReading]

\* no call of parse_debug_message yet
NoParse == [done |-> FALSE, result |-> NoReading]

\* a value returned to a reader.  items/shared: a returned list and whether
\* it is the list object self._data itself; none/entry/reading: an Optional;
\* seen: for wait_for_new_data, the number of appends before the wait began.
Returned(op, items, shared, none, entry, reading, seen) ==
    [op |-> op, items |-> items, shared |-> shared, none |-> none,
     entry |-> entry, reading |-> reading, seen |-> seen]

NoResult == Returned("none", <<>>, FALSE, TRUE, NoEntry, NoReading, 0)

\* self._data itself, without the copy
ListAlias(op, d, seen) == Returned(op, d, TRUE, FALSE, NoEntry, NoReading, seen)

\* self._data.copy(): a new list with the same entries
ListCopy(op, d, seen) == Returned(op, d, FALSE, FALSE, NoEntry, NoReading, seen)

\* the entries a reader sees in the list it was given
Items(res) == IF res.shared THEN data ELSE res.items

\* the contexts that take the lock of the buffer: the threads running
\* _monitor_loop and the readers
ThreadCtx(t) == <<"thread", t>>
ReaderCtx(r) == <<"reader", r>>
Contexts == {ThreadCtx(t) : t \in Threads} \cup {ReaderCtx(r) : r \in Readers}

\* nobody holds the lock
Free == <<"none", 0>>

\* a thread asked to stop counts as ended
is_alive_unless_stopping(t) ==
    t # 0 /\ loop_pc[t] \notin {"unborn", "dead"} /\ ~stop_event

\* self._thread and self._thread.is_alive()
is_alive(t) == t # 0 /\ loop_pc[t] \notin {"unborn", "dead"}

Init ==
    /\ clock = 0
    /\ data_retention \in Retentions
    /\ data = <<>>
    /\ appended = 0
    /\ thread = 0
    /\ stop_event = FALSE
    /\ serial_connection = 0
    /\ conn = [t \in Threads |-> "none"]
    /\ connected = FALSE
    /\ error_message = ""
    /\ loop_pc = [t \in Threads |-> "unborn"]
    /\ pending = [t \in Threads |-> NoPending]
    /\ ctl_pc = "idle"
    /\ start_result = "none"
    /\ stopped = FALSE
    /\ message = NoMessage
    /\ parsed = NoParse
    /\ rpc = [r \in Readers |-> "idle"]
    /\ rarg = [r \in Readers |-> 0]
    /\ rseen = [r \in Readers |-> 0]
    /\ returned = NoResult
    /\ lock = Free

\* time passes
Tick ==
    /\ clock < MaxTime
    /\ clock' = clock + 1
    /\ UNCHANGED <<data_retention, data, appended, monitor_vars, reader_vars,
                   parser_vars, lock>>

(* ------------------------- parse_debug_message ------------------------- *)
\* a call of parse_debug_message on a message of Messages, one call in a
\* behaviour
call_parse_debug_message ==
    /\ ~parsed.done
    /\ \E m \in Messages :
        /\ message' = m
        /\ parsed' = [done |-> TRUE, result |-> parse_debug_message(m)]
    /\ UNCHANGED <<clock, data_retention, data, appended, monitor_vars,
                   reader_vars, lock>>

(* ------------------------------ start() -------------------------------- *)
\* start() without the is_alive test: a thread is created although the
\* last one is alive
start_already_running_respawn ==
    /\ ctl_pc = "idle"
    /\ is_alive(thread)
    /\ \E t \in Threads :
        /\ loop_pc[t] = "unborn"
        /\ thread' = t
        /\ loop_pc' = [loop_pc EXCEPT ![t] = "connect"]
    /\ stop_event' = FALSE
    /\ ctl_pc' = "start_sleep"
    /\ stopped' = FALSE
    /\ UNCHANGED <<clock, data_retention, data, appended, serial_connection,
                   conn, connected, error_message, pending, start_result,
                   reader_vars, parser_vars, lock>>

\* the thread is alive: warning, return True
start_already_running ==
    /\ ctl_pc = "idle"
    /\ is_alive(thread)
    /\ start_result' = "true"
    /\ UNCHANGED stopped
    /\ UNCHANGED <<clock, data_retention, data, appended, thread, stop_event,
                   serial_connection, conn, connected, error_message, loop_pc,
                   pending, ctl_pc, reader_vars, parser_vars, lock>>

\* start() also resets the error message
start_spawn_resets_error(T) ==
    /\ ctl_pc = "idle"
    /\ ~is_alive(thread)
    /\ \E t \in T :
        /\ loop_pc[t] = "unborn"
        /\ \A u \in T : u < t => loop_pc[u] # "unborn"
        /\ thread' = t
        /\ loop_pc' = [loop_pc EXCEPT ![t] = "connect"]
    /\ stop_event' = FALSE
    /\ ctl_pc' = "start_sleep"
    /\ stopped' = FALSE
    /\ error_message' = ""
    /\ UNCHANGED <<clock, data_retention, data, appended, serial_connection,
                   conn, connected, pending, start_result,
                   reader_vars, parser_vars, lock>>

\* clear the stop event, create and start the thread, go to sleep (T: the
\* threads that can still be created)
start_spawn(T) ==
    /\ ctl_pc = "idle"
    /\ ~is_alive(thread)
    /\ \E t \in T :
        /\ loop_pc[t] = "unborn"
        /\ \A u \in T : u < t => loop_pc[u] # "unborn"
        /\ thread' = t
        /\ loop_pc' = [loop_pc EXCEPT ![t] = "connect"]
    /\ stop_event' = FALSE
    /\ ctl_pc' = "start_sleep"
    /\ stopped' = FALSE
    /\ UNCHANGED <<clock, data_retention, data, appended, serial_connection,
                   conn, connected, error_message, pending, start_result,
                   reader_vars, parser_vars, lock>>

\* the sleep is over: return self._connected
start_return ==
    /\ ctl_pc = "start_sleep"
    /\ start_result' = IF connected THEN "true" ELSE "false"
    /\ ctl_pc' = "idle"
    /\ UNCHANGED stopped
    /\ UNCHANGED <<clock, data_retention, data, appended, thread, stop_event,
                   serial_connection, conn, connected, error_message, loop_pc,
                   pending, reader_vars, parser_vars, lock>>

(* ------------------------------- stop() -------------------------------- *)
\* the stop event is toggled instead of set
stop_set_toggle ==
    /\ ctl_pc = "idle"
    /\ stop_event' = ~stop_event
    /\ ctl_pc' = "stop_close"
    /\ UNCHANGED <<clock, data_retention, data, appended, thread,
                   serial_connection, conn, connected, error_message, loop_pc,
                   pending, start_result, stopped, reader_vars, parser_vars, lock>>

\* self._stop_event.set()
stop_set ==
    /\ ctl_pc = "idle"
    /\ stop_event' = TRUE
    /\ ctl_pc' = "stop_close"
    /\ UNCHANGED stopped
    /\ UNCHANGED <<clock, data_retention, data, appended, thread,
                   serial_connection, conn, connected, error_message, loop_pc,
                   pending, start_result, reader_vars, parser_vars, lock>>

\* the connection is closed only when the loop has left its while loop
stop_close_waits ==
    /\ ctl_pc = "stop_close"
    /\ conn' = IF serial_connection # 0
                  /\ (thread = 0 \/ loop_pc[thread] \in {"finally", "dead"})
               THEN [conn EXCEPT ![serial_connection] = "closed"]
               ELSE conn
    /\ ctl_pc' = "stop_join"
    /\ UNCHANGED stopped
    /\ UNCHANGED <<clock, data_retention, data, appended, thread, stop_event,
                   serial_connection, connected, error_message, loop_pc,
                   pending, start_result, reader_vars, parser_vars, lock>>

\* if self._serial_connection: close it
stop_close ==
    /\ ctl_pc = "stop_close"
    /\ conn' = IF serial_connection # 0
               THEN [conn EXCEPT ![serial_connection] = "closed"]
               ELSE conn
    /\ ctl_pc' = "stop_join"
    /\ UNCHANGED stopped
    /\ UNCHANGED <<clock, data_retention, data, appended, thread, stop_event,
                   serial_connection, connected, error_message, loop_pc,
                   pending, start_result, reader_vars, parser_vars, lock>>

\* stop() clears the buffer before it returns
stop_join_clears ==
    /\ ctl_pc = "stop_join"
    /\ ~is_alive(thread)
    /\ ctl_pc' = "idle"
    /\ stopped' = TRUE
    /\ data' = <<>>
    /\ UNCHANGED <<clock, data_retention, appended, thread, stop_event,
                   serial_connection, conn, connected, error_message, loop_pc,
                   pending, start_result, reader_vars, parser_vars, lock>>

\* no live thread to join, or the joined thread has ended
stop_join ==
    /\ ctl_pc = "stop_join"
    /\ ~is_alive(thread)
    /\ ctl_pc' = "idle"
    /\ stopped' = TRUE
    /\ UNCHANGED <<clock, data_retention, data, appended, thread, stop_event,
                   serial_connection, conn, connected, error_message, loop_pc,
                   pending, start_result, reader_vars, parser_vars, lock>>

\* join(timeout=2.0) gives up on a thread that is still alive
stop_join_timeout ==
    /\ ctl_pc = "stop_join"
    /\ is_alive(thread)
    /\ ctl_pc' = "idle"
    /\ stopped' = TRUE
    /\ UNCHANGED <<clock, data_retention, data, appended, thread, stop_event,
                   serial_connection, conn, connected, error_message, loop_pc,
                   pending, start_result, reader_vars, parser_vars, lock>>

(* --------------------------- _monitor_loop ----------------------------- *)
\* self._serial_connection = serial.Serial(...): the port is open
monitor_loop_connect(t) ==
    /\ loop_pc[t] = "connect"
    /\ serial_connection' = t
    /\ conn' = [conn EXCEPT ![t] = "open"]
    /\ loop_pc' = [loop_pc EXCEPT ![t] = "connected"]
    /\ UNCHANGED <<loop_frame, data, appended, stop_event, connected,
                   error_message, pending, reader_vars>>

\* self._connected = True
monitor_loop_connected(t) ==
    /\ loop_pc[t] = "connected"
    /\ connected' = TRUE
    /\ loop_pc' = [loop_pc EXCEPT ![t] = "check"]
    /\ UNCHANGED <<loop_frame, data, appended, stop_event, serial_connection,
                   conn, error_message, pending, reader_vars>>

\* the failure of serial.Serial(...) is not recorded
monitor_loop_connect_fails_silent(t) ==
    /\ loop_pc[t] = "connect"
    /\ loop_pc' = [loop_pc EXCEPT ![t] = "finally"]
    /\ UNCHANGED <<loop_frame, data, appended, stop_event, serial_connection,
                   conn, connected, error_message, pending, reader_vars>>

\* serial.Serial(...) raises: SerialException, or another Exception
monitor_loop_connect_fails(t) ==
    /\ loop_pc[t] = "connect"
    /\ error_message' \in {"Serial port error", "Unexpected error"}
    /\ loop_pc' = [loop_pc EXCEPT ![t] = "finally"]
    /\ UNCHANGED <<loop_frame, data, appended, stop_event, serial_connection,
                   conn, connected, pending, reader_vars>>

\* while True: the stop event is not polled
monitor_loop_check_no_poll(t) ==
    /\ loop_pc[t] = "check"
    /\ loop_pc' = [loop_pc EXCEPT ![t] = "read"]
    /\ UNCHANGED <<loop_frame, data, appended, stop_event, serial_connection,
                   conn, connected, error_message, pending, reader_vars>>

\* while not self._stop_event.is_set()
monitor_loop_check(t) ==
    /\ loop_pc[t] = "check"
    /\ loop_pc' = [loop_pc EXCEPT ![t] = IF stop_event THEN "finally" ELSE "read"]
    /\ UNCHANGED <<loop_frame, data, appended, stop_event, serial_connection,
                   conn, connected, error_message, pending, reader_vars>>

\* the test "if parsed_data" is left out: an entry is built for every line
\* that is not empty
monitor_loop_read_stores_failures(t) ==
    /\ loop_pc[t] = "read"
    /\ conn[serial_connection] = "open"
    /\ \E wire \in WireLines :
        LET line == decode(wire)
            parsed_data == parse_debug_message(line.message)
        IN  IF ~line.empty
            THEN /\ appended < MaxAppends
                 /\ pending' = [pending EXCEPT ![t] =
                        [set |-> TRUE, line |-> wire, timestamp |-> clock,
                         parsed_data |-> parsed_data]]
                 /\ loop_pc' = [loop_pc EXCEPT ![t] = "append"]
            ELSE /\ loop_pc' = [loop_pc EXCEPT ![t] = "check"]
                 /\ UNCHANGED pending
    /\ UNCHANGED <<loop_frame, data, appended, stop_event, serial_connection,
                   conn, connected, error_message, reader_vars>>

\* readline() returns a line: decode, strip, parse, and build the entry with
\* timestamp = datetime.now() when the parse succeeds
monitor_loop_read(t) ==
    /\ loop_pc[t] = "read"
    /\ conn[serial_connection] = "open"
    /\ \E wire \in WireLines :
        LET line == decode(wire)
            parsed_data == parse_debug_message(line.message)
        IN  IF ~line.empty /\ parsed_data.ok
            THEN /\ appended < MaxAppends
                 /\ pending' = [pending EXCEPT ![t] =
                        [set |-> TRUE, line |-> wire, timestamp |-> clock,
                         parsed_data |-> parsed_data]]
                 /\ loop_pc' = [loop_pc EXCEPT ![t] = "append"]
            ELSE /\ loop_pc' = [loop_pc EXCEPT ![t] = "check"]
                 /\ UNCHANGED pending
    /\ UNCHANGED <<loop_frame, data, appended, stop_event, serial_connection,
                   conn, connected, error_message, reader_vars>>

\* readline() raises (the port was closed, or the device is gone): the inner
\* "except Exception" logs and breaks
monitor_loop_read_raises(t) ==
    /\ loop_pc[t] = "read"
    /\ loop_pc' = [loop_pc EXCEPT ![t] = "finally"]
    /\ UNCHANGED <<loop_frame, data, appended, stop_event, serial_connection,
                   conn, connected, error_message, pending, reader_vars>>

\* Condition.notify(): one reader suspended in wait() is woken
notify_one(pcs) ==
    [r \in Readers |->
        IF pcs[r] = "waiting" /\ \A q \in Readers : pcs[q] = "waiting" => r <= q
        THEN "notified"
        ELSE pcs[r]]

\* Condition.notify_all(): every reader suspended in wait() is woken
notify_all(pcs) ==
    [r \in Readers |-> IF pcs[r] = "waiting" THEN "notified" ELSE pcs[r]]


\* with self._data_condition: append, _cleanup_old_data, notify_all
monitor_loop_append(t) ==
    /\ loop_pc[t] = "append"
    /\ LET entry == Entry(pending[t].timestamp, pending[t].parsed_data,
                          appended + 1)
           grown == append(data, entry)
       IN  /\ data' = cleanup_old_data(grown, clock, data_retention)
           \* a list object shared with a reader stays behind when
           \* self._data is bound to the new slice
           /\ returned' = IF returned.shared /\ data' # grown
                          THEN [returned EXCEPT !.items = grown, !.shared = FALSE]
                          ELSE returned
    /\ appended' = appended + 1
    /\ rpc' = notify_all(rpc)
    /\ rarg' = [r \in Readers |-> IF rpc[r] = "waiting" THEN 0 ELSE rarg[r]]
    /\ pending' = [pending EXCEPT ![t] = NoPending]
    /\ loop_pc' = [loop_pc EXCEPT ![t] = "check"]
    /\ UNCHANGED <<loop_frame, stop_event, serial_connection, conn, connected,
                   error_message, rseen>>

\* finally without the close: only self._connected = False
monitor_loop_finally_no_close(t) ==
    /\ loop_pc[t] = "finally"
    /\ connected' = FALSE
    /\ loop_pc' = [loop_pc EXCEPT ![t] = "dead"]
    /\ UNCHANGED <<loop_frame, data, appended, stop_event, serial_connection,
                   conn, error_message, pending, reader_vars>>

\* finally: self._connected = False; close the connection if there is one
monitor_loop_finally(t) ==
    /\ loop_pc[t] = "finally"
    /\ connected' = FALSE
    /\ conn' = IF serial_connection # 0
               THEN [conn EXCEPT ![serial_connection] = "closed"]
               ELSE conn
    /\ loop_pc' = [loop_pc EXCEPT ![t] = "dead"]
    /\ UNCHANGED <<loop_frame, data, appended, stop_event, serial_connection,
                   error_message, pending, reader_vars>>

(* ------------------------------ readers -------------------------------- *)
buffer_frame == <<clock, data_retention, data, appended, monitor_vars,
                  parser_vars, lock>>

\* the data property
data_copy(r) ==
    /\ rpc[r] = "idle"
    /\ returned' = ListCopy("data", data, 0)
    /\ UNCHANGED <<buffer_frame, rpc, rarg, rseen>>

\* self._data[0] in the place of self._data[-1]
latest_entry_first(r) ==
    /\ rpc[r] = "idle"
    /\ returned' =
           IF data # <<>>
           THEN Returned("latest_entry", <<>>, FALSE, FALSE, data[1],
                         NoReading, 0)
           ELSE Returned("latest_entry", <<>>, FALSE, TRUE, NoEntry, NoReading, 0)
    /\ UNCHANGED <<buffer_frame, rpc, rarg, rseen>>

\* the latest_entry property
latest_entry(r) ==
    /\ rpc[r] = "idle"
    /\ returned' =
           IF data # <<>>
           THEN Returned("latest_entry", <<>>, FALSE, FALSE, data[Len(data)],
                         NoReading, 0)
           ELSE Returned("latest_entry", <<>>, FALSE, TRUE, NoEntry, NoReading, 0)
    /\ UNCHANGED <<buffer_frame, rpc, rarg, rseen>>

get_latest_parsed_data(r) ==
    /\ rpc[r] = "idle"
    /\ returned' =
           IF data # <<>>
           THEN Returned("get_latest_parsed_data", <<>>, FALSE, FALSE, NoEntry,
                         data[Len(data)].parsed_data, 0)
           ELSE Returned("get_latest_parsed_data", <<>>, FALSE, TRUE, NoEntry,
                         NoReading, 0)
    /\ UNCHANGED <<buffer_frame, rpc, rarg, rseen>>

\* get_data_since: cutoff_time = datetime.now() - timedelta(seconds_ago),
\* computed before the lock is taken
get_data_since_cutoff(r) ==
    /\ rpc[r] = "idle"
    /\ \E seconds_ago \in Durations : rarg' = [rarg EXCEPT ![r] = clock - seconds_ago]
    /\ rpc' = [rpc EXCEPT ![r] = "since"]
    /\ UNCHANGED <<buffer_frame, rseen, returned>>

\* get_data_since: the filter under the lock
get_data_since(r) ==
    /\ rpc[r] = "since"
    /\ returned' =
           Returned("get_data_since", EntriesSince(data, rarg[r]), FALSE, FALSE,
                    NoEntry, NoReading, 0)
    /\ rarg' = [rarg EXCEPT ![r] = 0]
    /\ rpc' = [rpc EXCEPT ![r] = "idle"]
    /\ UNCHANGED <<buffer_frame, rseen>>

\* wait_for_new_data: take the lock, then wait(timeout) releases it and
\* suspends the reader
wait_for_new_data_wait(r) ==
    /\ rpc[r] = "idle"
    /\ \E timeout \in Timeouts :
        /\ clock + timeout <= MaxTime
        /\ rarg' = [rarg EXCEPT ![r] = clock + timeout]
    /\ rseen' = [rseen EXCEPT ![r] = appended]
    /\ rpc' = [rpc EXCEPT ![r] = "waiting"]
    /\ UNCHANGED <<buffer_frame, returned>>

\* wait() called without its timeout: the wait never times out
wait_for_new_data_timeout_never(r) ==
    /\ rpc[r] = "waiting"
    /\ FALSE
    /\ UNCHANGED vars

\* the wait ends before its timeout has elapsed
wait_for_new_data_timeout_early(r) ==
    /\ rpc[r] = "waiting"
    /\ rpc' = [rpc EXCEPT ![r] = "timedout"]
    /\ rarg' = [rarg EXCEPT ![r] = 0]
    /\ rseen' = [rseen EXCEPT ![r] = 0]
    /\ UNCHANGED <<buffer_frame, returned>>

\* the timeout of wait() elapses
wait_for_new_data_timeout(r) ==
    /\ rpc[r] = "waiting"
    /\ clock >= rarg[r]
    /\ rpc' = [rpc EXCEPT ![r] = "timedout"]
    /\ rarg' = [rarg EXCEPT ![r] = 0]
    /\ rseen' = [rseen EXCEPT ![r] = 0]
    /\ UNCHANGED <<buffer_frame, returned>>

\* wait() has the lock again: return self._data.copy()
wait_for_new_data(r) ==
    /\ rpc[r] \in {"notified", "timedout"}
    /\ returned' = ListCopy("wait_for_new_data", data, rseen[r])
    /\ rseen' = [rseen EXCEPT ![r] = 0]
    /\ UNCHANGED rarg
    /\ rpc' = [rpc EXCEPT ![r] = "idle"]
    /\ UNCHANGED buffer_frame

(* ------------------------ the lock of the buffer ----------------------- *)
\* The actions above take each "with self._data_condition" block as one
\* step.  The actions below take the same blocks statement by statement,
\* with the lock that makes them one step.

\* what a step of a thread inside its block leaves alone, the lock apart
writer_frame == <<clock, data_retention, thread, stop_event, serial_connection,
                  conn, connected, error_message, ctl_pc, start_result,
                  stopped, parser_vars>>

\* what a step of a reader leaves alone, the lock apart
reader_frame == <<clock, data_retention, data, appended, monitor_vars,
                  parser_vars>>

\* the lock is taken whoever holds it
acquire_unguarded(ctx) == lock' = ctx

\* entering "with self._data_condition": the context goes on when the lock
\* is free and holds it from then on (the RLock is re-entrant, and no context
\* of the program enters a block while it is inside one)
acquire(ctx) == lock = Free /\ lock' = ctx

\* leaving "with self._data_condition"
release(ctx) == lock = ctx /\ lock' = Free

\* the thread enters its block
monitor_loop_lock(t) ==
    /\ loop_pc[t] = "append"
    /\ acquire(ThreadCtx(t))
    /\ loop_pc' = [loop_pc EXCEPT ![t] = "data_append"]
    /\ UNCHANGED <<writer_frame, data, appended, pending, reader_vars>>

\* self._data.append(entry)
monitor_loop_data_append(t) ==
    /\ loop_pc[t] = "data_append"
    /\ data' = append(data, Entry(pending[t].timestamp, pending[t].parsed_data,
                                  appended + 1))
    /\ appended' = appended + 1
    /\ pending' = [pending EXCEPT ![t] = NoPending]
    /\ loop_pc' = [loop_pc EXCEPT ![t] = "cleanup"]
    /\ UNCHANGED <<writer_frame, reader_vars, lock>>

\* self._cleanup_old_data()
monitor_loop_cleanup(t) ==
    /\ loop_pc[t] = "cleanup"
    /\ data' = cleanup_old_data(data, clock, data_retention)
    /\ returned' = IF returned.shared /\ data' # data
                   THEN [returned EXCEPT !.items = data, !.shared = FALSE]
                   ELSE returned
    /\ loop_pc' = [loop_pc EXCEPT ![t] = "notify"]
    /\ UNCHANGED <<writer_frame, appended, pending, rpc, rarg, rseen, lock>>

\* self._data_condition.notify_all()
monitor_loop_notify(t) ==
    /\ loop_pc[t] = "notify"
    /\ rpc' = notify_all(rpc)
    /\ rarg' = [r \in Readers |-> IF rpc[r] = "waiting" THEN 0 ELSE rarg[r]]
    /\ loop_pc' = [loop_pc EXCEPT ![t] = "unlock"]
    /\ UNCHANGED <<writer_frame, data, appended, pending, rseen, returned,
                   lock>>

\* the thread leaves its block
monitor_loop_unlock(t) ==
    /\ loop_pc[t] = "unlock"
    /\ release(ThreadCtx(t))
    /\ loop_pc' = [loop_pc EXCEPT ![t] = "check"]
    /\ UNCHANGED <<writer_frame, data, appended, pending, reader_vars>>

\* the data property: the reader enters the block
data_lock(r) ==
    /\ rpc[r] = "idle"
    /\ acquire(ReaderCtx(r))
    /\ rpc' = [rpc EXCEPT ![r] = "data"]
    /\ UNCHANGED <<reader_frame, rarg, rseen, returned>>

\* the data property: return self._data.copy(), leaving the block
data_return(r) ==
    /\ rpc[r] = "data"
    /\ returned' = ListCopy("data", data, 0)
    /\ release(ReaderCtx(r))
    /\ rpc' = [rpc EXCEPT ![r] = "idle"]
    /\ UNCHANGED <<reader_frame, rarg, rseen>>

\* the latest_entry property: the reader enters the block
latest_entry_lock(r) ==
    /\ rpc[r] = "idle"
    /\ acquire(ReaderCtx(r))
    /\ rpc' = [rpc EXCEPT ![r] = "latest_entry"]
    /\ UNCHANGED <<reader_frame, rarg, rseen, returned>>

\* the latest_entry property: return self._data[-1] or None, leaving the
\* block
latest_entry_return(r) ==
    /\ rpc[r] = "latest_entry"
    /\ returned' =
           IF data # <<>>
           THEN Returned("latest_entry", <<>>, FALSE, FALSE, data[Len(data)],
                         NoReading, 0)
           ELSE Returned("latest_entry", <<>>, FALSE, TRUE, NoEntry, NoReading, 0)
    /\ release(ReaderCtx(r))
    /\ rpc' = [rpc EXCEPT ![r] = "idle"]
    /\ UNCHANGED <<reader_frame, rarg, rseen>>

\* wait_for_new_data: the reader enters the block
wait_for_new_data_lock(r) ==
    /\ rpc[r] = "idle"
    /\ acquire(ReaderCtx(r))
    /\ rpc' = [rpc EXCEPT ![r] = "wait"]
    /\ UNCHANGED <<reader_frame, rarg, rseen, returned>>

\* wait_for_new_data: wait(timeout) releases the lock and suspends the
\* reader
wait_for_new_data_suspend(r) ==
    /\ rpc[r] = "wait"
    /\ \E timeout \in Timeouts :
        /\ clock + timeout <= MaxTime
        /\ rarg' = [rarg EXCEPT ![r] = clock + timeout]
    /\ rseen' = [rseen EXCEPT ![r] = appended]
    /\ release(ReaderCtx(r))
    /\ rpc' = [rpc EXCEPT ![r] = "waiting"]
    /\ UNCHANGED <<reader_frame, returned>>

\* wait_for_new_data: wait() takes the lock again before it returns, woken
\* or timed out
wait_for_new_data_relock(r) ==
    /\ rpc[r] \in {"notified", "timedout"}
    /\ acquire(ReaderCtx(r))
    /\ rpc' = [rpc EXCEPT ![r] = "woken"]
    /\ UNCHANGED <<reader_frame, rarg, rseen, returned>>

\* wait_for_new_data: return self._data.copy(), leaving the block
wait_for_new_data_return(r) ==
    /\ rpc[r] = "woken"
    /\ returned' = ListCopy("wait_for_new_data", data, rseen[r])
    /\ rseen' = [rseen EXCEPT ![r] = 0]
    /\ release(ReaderCtx(r))
    /\ rpc' = [rpc EXCEPT ![r] = "idle"]
    /\ UNCHANGED <<reader_frame, rarg>>

(* ---------------------------- specification ---------------------------- *)
\* the controlling context, creating the threads of T
Controller(T) ==
    \/ start_already_running
    \/ start_spawn(T)
    \/ start_return
    \/ stop_set
    \/ stop_close
    \/ stop_join
    \/ stop_join_timeout

\* the threads running _monitor_loop
Loop ==
    \/ \E t \in Threads : monitor_loop_connect(t)
    \/ \E t \in Threads : monitor_loop_connected(t)
    \/ \E t \in Threads : monitor_loop_connect_fails(t)
    \/ \E t \in Threads : monitor_loop_check(t)
    \/ \E t \in Threads : monitor_loop_read(t)
    \/ \E t \in Threads : monitor_loop_read_raises(t)
    \/ \E t \in Threads : monitor_loop_append(t)
    \/ \E t \in Threads : monitor_loop_finally(t)

\* reader r calling wait_for_new_data
Waiter(r) ==
    \/ wait_for_new_data_wait(r)
    \/ wait_for_new_data_timeout(r)
    \/ wait_for_new_data(r)

\* reader r calling the operations that do not wait
Snapshots(r) ==
    \/ data_copy(r)
    \/ latest_entry(r)
    \/ get_latest_parsed_data(r)
    \/ get_data_since_cutoff(r)
    \/ get_data_since(r)

\* The whole program: the controlling context, the threads and the readers.
Next ==
    \/ Tick
    \/ Controller(Threads)
    \/ Loop
    \/ \E r \in Readers : Waiter(r)
    \/ \E r \in Readers : Snapshots(r)

Spec == Init /\ [][Next]_vars

\* The frame parser alone, called on every message of Messages.
ParserNext == call_parse_debug_message

ParserSpec == Init /\ [][ParserNext]_vars

\* The state space of Spec is the product of the state spaces of its
\* contexts.  The readers write reader_vars only, and the controlling context
\* and the threads read none of them but rpc (notify_all), so each property
\* is checked under the composition of the contexts it speaks about.

\* The monitor without readers: two sessions of start()/stop() and their
\* threads.
MonitorNext ==
    \/ Tick
    \/ Controller(Threads)
    \/ Loop

MonitorSpec == Init /\ [][MonitorNext]_vars

\* the steps of thread t
LoopOf(t) ==
    \/ monitor_loop_connect(t)
    \/ monitor_loop_connected(t)
    \/ monitor_loop_connect_fails(t)
    \/ monitor_loop_check(t)
    \/ monitor_loop_read(t)
    \/ monitor_loop_read_raises(t)
    \/ monitor_loop_append(t)
    \/ monitor_loop_finally(t)

\* A thread that can take a step takes one: serial.Serial(...) returns or
\* raises, readline() returns within its timeout (timeout=1) or raises, and
\* the lock of the buffer is free again after every critical section.
LoopFairness == \A t \in Threads : WF_vars(LoopOf(t))

\* The monitor without readers, its threads scheduled fairly.
MonitorLiveSpec == Init /\ [][MonitorNext]_vars /\ LoopFairness

\* One session of the monitor and one reader calling every read operation.
ReaderNext ==
    \/ Tick
    \/ Controller({1})
    \/ Loop
    \/ Waiter(1)
    \/ Snapshots(1)

ReaderSpec == Init /\ [][ReaderNext]_vars

\* One session of the monitor and two readers calling wait_for_new_data.
WaiterNext ==
    \/ Tick
    \/ Controller({1})
    \/ Loop
    \/ \E r \in Readers : Waiter(r)

WaiterSpec == Init /\ [][WaiterNext]_vars

\* Time passes, a wait whose timeout has elapsed ends, and a woken reader
\* gets the lock back (no critical section blocks while holding it).
WaiterFairness ==
    /\ WF_vars(Tick)
    /\ \A r \in Readers : WF_vars(wait_for_new_data_timeout(r))
    /\ \A r \in Readers : WF_vars(wait_for_new_data(r))

\* For liveness: a monitor that keeps nothing (data_retention_seconds = 0),
\* is started and is not stopped, and two readers calling wait_for_new_data.
\* stop() and the pruning neither wake a reader nor hold one back.
WaiterLiveNext ==
    \/ Tick
    \/ start_already_running
    \/ start_spawn({1})
    \/ start_return
    \/ Loop
    \/ \E r \in Readers : Waiter(r)

\* SerialMonitor(port_name, data_retention_seconds=0)
WaiterLiveInit == Init /\ data_retention = 0

WaiterLiveSpec == WaiterLiveInit /\ [][WaiterLiveNext]_vars /\ WaiterFairness

\* the steps of thread t inside its block
Writer(t) ==
    \/ monitor_loop_data_append(t)
    \/ monitor_loop_cleanup(t)
    \/ monitor_loop_notify(t)
    \/ monitor_loop_unlock(t)

\* the steps of reader r inside its blocks
Reader(r) ==
    \/ data_return(r)
    \/ latest_entry_return(r)
    \/ wait_for_new_data_suspend(r)
    \/ wait_for_new_data_return(r)

\* the steps in which a context enters a block
Enters ==
    \/ \E t \in Threads : monitor_loop_lock(t)
    \/ \E r \in Readers : data_lock(r)
    \/ \E r \in Readers : latest_entry_lock(r)
    \/ \E r \in Readers : wait_for_new_data_lock(r)
    \/ \E r \in Readers : wait_for_new_data_relock(r)

\* A monitor that is started and is not stopped, and two readers calling
\* data, latest_entry and wait_for_new_data, every block taken statement by
\* statement.
LockNext ==
    \/ Tick
    \/ start_already_running
    \/ start_spawn({1})
    \/ start_return
    \/ \E t \in Threads : monitor_loop_connect(t)
    \/ \E t \in Threads : monitor_loop_connected(t)
    \/ \E t \in Threads : monitor_loop_connect_fails(t)
    \/ \E t \in Threads : monitor_loop_check(t)
    \/ \E t \in Threads : monitor_loop_read(t)
    \/ \E t \in Threads : monitor_loop_read_raises(t)
    \/ \E t \in Threads : monitor_loop_finally(t)
    \/ Enters
    \/ \E t \in Threads : Writer(t)
    \/ \E r \in Readers : Reader(r)
    \/ \E r \in Readers : wait_for_new_data_timeout(r)

\* SerialMonitor(port_name, data_retention_seconds=1): entries are pruned
\* as time passes (the lock does not depend on the retention)
LockInit == Init /\ data_retention = 1

LockSpec == LockInit /\ [][LockNext]_vars

(* ------------------------------ properties ----------------------------- *)
\* the entry a thread standing at the append will add to the buffer
NewEntry(t) == Entry(pending[t].timestamp, pending[t].parsed_data, appended + 1)

\* thread t performs its append in this step
Appends(t) == loop_pc[t] = "append" /\ loop_pc'[t] = "check"

\* d is ordered by timestamp and by order of arrival
Ordered(d) ==
    \A i, j \in 1..Len(d) :
        i < j => d[i].timestamp <= d[j].timestamp /\ d[i].seq < d[j].seq

\* d without its leading entries older than cutoff_time
RECURSIVE StalePrefixRemoved(_, _)
StalePrefixRemoved(d, cutoff_time) ==
    IF d # <<>> /\ Head(d).timestamp < cutoff_time
    THEN StalePrefixRemoved(Tail(d), cutoff_time)
    ELSE d

\* C1: immediately after every append of the loop (entry added, cleanup run)
\* the buffer holds no entry older than now - retention, now being the
\* instant at which the cleanup computes its cutoff.
C1_NoStaleEntryAfterAppend ==
    [][\A t \in Threads :
          Appends(t) =>
              \A i \in 1..Len(data') :
                  data'[i].timestamp >= clock - data_retention]_vars

\* C2: the buffer is always ordered by non-decreasing timestamp in arrival
\* order, and so is every list returned to a reader.
C2_BufferAndSnapshotsOrdered ==
    /\ Ordered(data)
    /\ Ordered(returned.items)

\* C2 witness: a reader holds a list of two entries with different
\* timestamps, returned by get_data_since.
C2_Witness ==
    /\ returned.op = "get_data_since"
    /\ Len(returned.items) >= 2
    /\ returned.items[1].timestamp < returned.items[2].timestamp

\* C3: the buffer after an append is the previous buffer followed by the new
\* entry, without exactly its leading entries older than now - retention.
C3_PrunesExactlyStalePrefix ==
    [][\A t \in Threads :
          Appends(t) =>
              data' = StalePrefixRemoved(Append(data, NewEntry(t)),
                                         clock - data_retention)]_vars

\* s is a contiguous suffix of d
IsSuffix(s, d) == \E k \in 0..Len(d) : s = SubSeq(d, k + 1, Len(d))

\* reader r, woken by an append, returns from wait_for_new_data in this step
ReturnsNotified(r) == rpc[r] = "notified" /\ rpc'[r] = "idle"

\* C4 as stated: every reader suspended in wait_for_new_data when an append
\* happens is woken by that append, and the list each of them returns
\* holds the appended entry (the append after the rseen[r] it had seen).
C4_WokenReadersSeeNewEntry ==
    [][\A r \in Readers :
          /\ (appended' # appended /\ rpc[r] = "waiting") => rpc'[r] = "notified"
          /\ ReturnsNotified(r) =>
                \E i \in 1..Len(returned'.items) :
                    returned'.items[i].seq = rseen[r] + 1]_vars

\* C4 amended: every reader suspended in wait_for_new_data when an append
\* happens is woken by that append, and the list each of them returns is the
\* buffer at the moment of its return: not empty, holding the appended
\* entry or, when later appends have pruned it, only entries appended later.
C4_WokenReadersSeeNewEntryOrLater ==
    [][\A r \in Readers :
          /\ (appended' # appended /\ rpc[r] = "waiting") => rpc'[r] = "notified"
          /\ ReturnsNotified(r) =>
                /\ returned'.items = data'
                /\ returned'.items # <<>>
                /\ \/ \E i \in 1..Len(returned'.items) :
                          returned'.items[i].seq = rseen[r] + 1
                   \/ \A i \in 1..Len(returned'.items) :
                          returned'.items[i].seq > rseen[r] + 1]_vars

\* C4 witness: two readers woken by the same append.
C4_Witness ==
    /\ rpc[1] = "notified"
    /\ rpc[2] = "notified"
    /\ rseen[1] = rseen[2]

\* C5: every call of wait_for_new_data returns, whatever the loop and the
\* other reader do, also when nothing is ever appended.
C5_WaitReturns ==
    \A r \in Readers : (rpc[r] # "idle") ~> (rpc[r] = "idle")

\* C5 witness: a wait has returned although nothing was ever appended.
C5_Witness ==
    /\ returned.op = "wait_for_new_data"
    /\ appended = 0

\* C6: a wait ends only when an append has occurred since it began or its
\* timeout has elapsed, wait_for_new_data returns only after its wait has
\* ended, and what it returns is the buffer at the moment of the return.
C6_NoEarlyReturn ==
    [][\A r \in Readers :
          /\ (rpc[r] = "waiting" /\ rpc'[r] # "waiting") =>
                (appended' > rseen[r] \/ clock >= rarg[r])
          /\ (rpc[r] # "idle" /\ rpc'[r] = "idle"
                /\ returned'.op = "wait_for_new_data") =>
                /\ rpc[r] \in {"notified", "timedout"}
                /\ Items(returned)' = data']_vars

\* C6 witness: a wait begun after the first append and ended by the second
\* one has returned a list holding the second entry.
C6_Witness ==
    /\ returned.op = "wait_for_new_data"
    /\ returned.seen >= 1
    /\ \E i \in 1..Len(returned.items) : returned.items[i].seq > returned.seen

\* a step of a reader: no thread appends and the readers' state changes
ReaderStep ==
    /\ ~\E t \in Threads : Appends(t)
    /\ reader_vars' # reader_vars

\* C7: the read operations leave the buffer as it is, a snapshot is the
\* buffer at its return, and a list already returned to a reader is not
\* changed by later appends and pruning.
C7_ReadsLeaveBufferAlone ==
    [][/\ ReaderStep => data' = data
       /\ (ReaderStep /\ returned'.op = "data" /\ returned' # returned) =>
              Items(returned)' = data
       /\ (\E t \in Threads : Appends(t)) =>
              Items(returned)' = Items(returned)]_vars

\* C7 witness: a reader holds a snapshot taken before the last append.
C7_Witness ==
    /\ returned.op = "data"
    /\ returned.items # <<>>
    /\ returned.items # data

\* C8: get_data_since returns, in buffer order, exactly the entries of the
\* buffer whose timestamp is at least the cutoff (now - seconds_ago, now
\* being the instant at which the call computes it): a contiguous suffix of
\* the buffer, never an entry that was pruned.
C8_SinceIsFreshSuffix ==
    [][\A r \in Readers :
          (rpc[r] = "since" /\ rpc'[r] = "idle") =>
              /\ IsSuffix(returned'.items, data')
              /\ \A i \in 1..Len(data') :
                    (data'[i].timestamp >= rarg[r]) <=>
                        (\E j \in 1..Len(returned'.items) :
                            returned'.items[j] = data'[i])]_vars

\* C8 witness: get_data_since has returned a suffix of the buffer that is
\* neither empty nor the whole buffer.
C8_Witness ==
    /\ returned.op = "get_data_since"
    /\ returned.items # <<>>
    /\ Len(returned.items) < Len(data)
    /\ IsSuffix(returned.items, data)

\* C9: latest_entry and get_latest_parsed_data return None exactly when the
\* buffer is empty, and otherwise the last entry of the buffer (its parsed
\* data), which is the entry appended last.
C9_LatestIsLastOrNone ==
    [][/\ (returned' # returned /\ returned'.op = "latest_entry") =>
              /\ returned'.none <=> (data = <<>>)
              /\ data # <<>> =>
                    /\ returned'.entry = data[Len(data)]
                    /\ returned'.entry.seq = appended
       /\ (returned' # returned /\ returned'.op = "get_latest_parsed_data") =>
              /\ returned'.none <=> (data = <<>>)
              /\ data # <<>> =>
                    returned'.reading = data[Len(data)].parsed_data]_vars

\* C9 witness: latest_entry has returned the second entry appended.
C9_Witness ==
    /\ returned.op = "latest_entry"
    /\ ~returned.none
    /\ returned.entry.seq = 2

\* the controlling context calls start() in this step
StartCalled ==
    /\ ctl_pc = "idle"
    /\ ctl_pc' = "start_sleep" \/ start_result' # start_result

\* C10: start() called while the thread is alive creates no thread, leaves
\* the stop event, the connection, the connection status and the buffer as
\* they are, and returns True.
C10_StartWhileRunningIsNoOp ==
    [][(StartCalled /\ is_alive(thread)) =>
          /\ start_result' = "true"
          /\ ctl_pc' = "idle"
          /\ UNCHANGED <<thread, loop_pc, stop_event, serial_connection, conn,
                         connected, error_message, data, appended>>]_vars

\* C10 witness: start() has returned True while the first thread was still
\* opening the port.
C10_Witness ==
    /\ ctl_pc = "idle"
    /\ thread = 1
    /\ loop_pc[1] = "connect"
    /\ start_result = "true"

\* start() returns in this step from its wait for the thread it created
StartReturns == ctl_pc = "start_sleep" /\ ctl_pc' = "idle"

\* C11: a start() that created a thread returns True exactly when that
\* thread's attempt to open the port succeeded, and returns False only when
\* the attempt failed.
C11_StartReturnsConnectOutcome ==
    [][StartReturns =>
          /\ (start_result' = "true") <=> (conn[thread] # "none")
          /\ (start_result' = "false") =>
                (conn[thread] = "none" /\ loop_pc[thread] \in {"finally", "dead"})]_vars

\* the controlling context takes a step of stop()
StopStep ==
    \/ ctl_pc = "idle" /\ ctl_pc' = "stop_close"
    \/ ctl_pc = "stop_close" /\ ctl_pc' = "stop_join"
    \/ ctl_pc = "stop_join" /\ ctl_pc' = "idle"

C13_StopEndsLoop ==
    \A t \in Threads :
        (stop_event /\ thread = t /\ is_alive(t)) ~>
            (loop_pc[t] = "dead" /\ ~connected)

\* C13 witness: the loop has ended while stop() waits in join; it had
\* connected and appended, and no fault of the connection was recorded.
C13_Witness ==
    /\ ctl_pc = "stop_join"
    /\ thread # 0
    /\ loop_pc[thread] = "dead"
    /\ conn[thread] = "closed"
    /\ ~connected
    /\ appended >= 1

\* C14: in every state in which a thread has ended, whatever made it end,
\* the connection it opened is closed, and the connection status is False
\* as long as no later thread has been created.
C14_ConnectionReleased ==
    \A t \in Threads :
        loop_pc[t] = "dead" =>
            /\ conn[t] # "open"
            /\ thread = t => ~connected

\* C14 witness: a thread that had opened the port has ended on a fault of
\* readline(), stop() never called: its connection is closed.
C14_Witness ==
    /\ loop_pc[1] = "dead"
    /\ conn[1] = "closed"
    /\ ~stop_event
    /\ ~stopped
    /\ ~connected

\* the attempt of thread t to open the port has failed
ConnectFailed(t) == conn[t] = "none" /\ loop_pc[t] \in {"finally", "dead"}

\* C15: when the port cannot be opened the thread ends without a second
\* attempt: from the failure on the error message is not empty, the
\* connection status is False, the thread has no entry to append and the
\* buffer does not change while it ends, and the start() that created it
\* returns False.
C15_ConnectFailureIsFinal ==
    /\ [](\A t \in Threads :
            ConnectFailed(t) =>
                /\ error_message # ""
                /\ ~pending[t].set
                /\ thread = t => ~connected)
    /\ [][\A t \in Threads :
            /\ ConnectFailed(t) => ConnectFailed(t)'
            /\ (ConnectFailed(t)' /\ loop_pc'[t] # loop_pc[t]) =>
                  UNCHANGED <<data, appended, rpc>>
            /\ (ConnectFailed(t) /\ thread = t /\ StartReturns) =>
                  start_result' = "false"]_vars

\* C15 witness: the open failed, the thread has ended and start() has
\* returned False.
C15_Witness ==
    /\ thread = 1
    /\ ConnectFailed(1)
    /\ loop_pc[1] = "dead"
    /\ error_message # ""
    /\ start_result = "false"
    /\ ctl_pc = "idle"

\* C16: when readline() raises while the loop runs and no stop was
\* requested, the thread leaves the loop with an error message that is not
\* empty.
C16_ReadFaultIsRecorded ==
    [][\A t \in Threads :
          (loop_pc[t] = "read" /\ loop_pc'[t] = "finally" /\ ~stop_event) =>
              error_message' # ""]_vars

\* C17: parse_debug_message returns None or a reading whose raw_values,
\* sensor_values and key_states have 4 elements each; a message in which a
\* group has another number of comma-separated values gives None, and None
\* carries no values.
C17_FourValuesOrNone ==
    parsed.done =>
        /\ parsed.result.ok =>
              /\ Len(parsed.result.raw_values) = 4
              /\ Len(parsed.result.sensor_values) = 4
              /\ Len(parsed.result.key_states) = 4
        /\ (Len(message.raw) # 4 \/ Len(message.sensor) # 4
                \/ Len(message.keys) # 4) => ~parsed.result.ok
        /\ ~parsed.result.ok => parsed.result = NoReading

\* C17 witness: a message with 5 sensor values, 4 raw values and 4 key
\* states, every token valid, has been refused.
C17_Witness ==
    /\ parsed.done
    /\ ~parsed.result.ok
    /\ message.labels
    /\ message.raw = Repeat(RawToken, 4)
    /\ message.sensor = Repeat(SensorToken, 5)
    /\ message.keys = Repeat(KeysToken, 4)
    /\ message.thresh = <<"1">>

\* an integer: digits, blanks around them allowed
IntegerToken(tok) ==
    LET t == Strip(tok) IN t # <<>> /\ \A i \in 1..Len(t) : t[i] \in Digits

\* a decimal: digits with at most one point, blanks around them allowed
DecimalToken(tok) ==
    LET t == Strip(tok)
    IN  /\ \A i \in 1..Len(t) : t[i] \in Digits \cup {"."}
        /\ \E i \in 1..Len(t) : t[i] \in Digits
        /\ \A i, j \in 1..Len(t) : (t[i] = "." /\ t[j] = ".") => i = j

\* exactly 0 or 1, blanks around it allowed
KeyToken(tok) == Strip(tok) \in {<<"0">>, <<"1">>}

\* C18: parse_debug_message returns a reading only if every RAW token is an
\* integer, every SENSOR token and the THRESH token a decimal, and every
\* KEYS token exactly 0 or 1.
C18_SuccessOnlyOnValidTokens ==
    (parsed.done /\ parsed.result.ok) =>
        /\ \A i \in 1..Len(message.raw) : IntegerToken(message.raw[i])
        /\ \A i \in 1..Len(message.sensor) : DecimalToken(message.sensor[i])
        /\ \A i \in 1..Len(message.keys) : KeyToken(message.keys[i])
        /\ DecimalToken(message.thresh)

\* thread t has read a line in this step (readline() returned)
Reads(t) == loop_pc[t] = "read" /\ loop_pc'[t] \in {"append", "check"}

\* C19: an iteration of the loop adds an entry, stamped with the time of its
\* receipt and carrying the parsed reading, exactly when the line read is
\* not empty and parse_debug_message succeeds on it; on an empty line or a
\* failed parse the buffer, the waiting readers and the error message stay as
\* they are and the loop goes on; the buffer changes in no other step.
C19_AppendIffParsed ==
    [][/\ \A t \in Threads :
            /\ Reads(t) =>
                  /\ \E wire \in WireLines :
                        LET line == decode(wire)
                            reading == parse_debug_message(line.message)
                        IN  IF ~line.empty /\ reading.ok
                            THEN /\ loop_pc'[t] = "append"
                                 /\ pending'[t] =
                                        [set |-> TRUE, line |-> wire,
                                         timestamp |-> clock,
                                         parsed_data |-> reading]
                            ELSE /\ loop_pc'[t] = "check"
                                 /\ pending' = pending
                  /\ UNCHANGED <<data, appended, rpc, error_message,
                                 connected>>
            /\ Appends(t) =>
                  /\ pending[t].set /\ pending[t].parsed_data.ok
                  /\ appended' = appended + 1
                  /\ data' # <<>>
                  /\ data'[Len(data')] = NewEntry(t)
                  /\ \A i \in 1..(Len(data') - 1) :
                        \E j \in 1..Len(data) : data'[i] = data[j]
                  /\ UNCHANGED <<error_message, connected>>
       /\ data' # data => \E t \in Threads : Appends(t)]_vars

\* C19 witness: the first good line has been appended and has woken a
\* reader; the loop goes on.
C19_Witness ==
    /\ loop_pc[1] = "check"
    /\ appended = 1
    /\ data # <<>>
    /\ data[Len(data)].seq = 1
    /\ rpc[1] = "notified"
    /\ error_message = ""
    /\ connected

\* C20: a line holding an undecodable byte sequence is never appended to the
\* buffer.
C20_UndecodableLineDiscarded ==
    [][\A t \in Threads : Appends(t) => ~pending[t].line.undecodable]_vars

\* stop() takes its close step
StopCloses == ctl_pc = "stop_close" /\ ctl_pc' = "stop_join"

\* C21 as stated: the close performed by stop() comes after the loop has left
\* its while loop.
C21_StopClosesAfterLoopExit ==
    [][(StopCloses /\ conn' # conn) =>
          loop_pc[thread] \in {"finally", "dead"}]_vars

\* C21 amended: stop() closes the connection right after setting the stop
\* event, wherever the loop stands, and joins after that; a read on the
\* closed connection returns no line.
C21_StopClosesThenJoins ==
    [][/\ StopCloses =>
            /\ stop_event
            /\ serial_connection # 0 => conn'[serial_connection] = "closed"
       /\ \A t \in Threads : Reads(t) => conn[t] = "open"]_vars

\* C21 witness: stop() has closed the connection and waits in join while the
\* loop is still in its read.
C21_Witness ==
    /\ ctl_pc = "stop_join"
    /\ thread = 1
    /\ loop_pc[1] = "read"
    /\ conn[1] = "closed"

\* stop() returns in this step
StopReturns == ctl_pc = "stop_join" /\ ctl_pc' = "idle"

\* start() creates a thread in this step
StartSpawns == ctl_pc = "idle" /\ ctl_pc' = "start_sleep"

\* C22 as stated: the buffer is empty when start() begins a session and
\* when stop() has returned.
C22_BufferClearedByStop ==
    [][/\ StartSpawns => data = <<>>
       /\ StopReturns => data' = <<>>]_vars

\* C22 amended: the buffer is empty at construction, and no step of start()
\* or stop() changes it: after stop() it holds what the loop left in it, and
\* a later session starts with those entries.
C22_BufferOutlivesSession ==
    /\ [](appended = 0 => data = <<>>)
    /\ [][(StartSpawns \/ StartReturns \/ StopStep \/ start_result' # start_result)
             => data' = data]_vars

\* C22 witness: stop() has returned, the loop has ended, and the buffer
\* still holds an entry.
C22_Witness ==
    /\ stopped
    /\ ctl_pc = "idle"
    /\ thread = 1
    /\ loop_pc[1] = "dead"
    /\ data # <<>>

\* the threads that run _monitor_loop and have not ended
Running == {t \in Threads : loop_pc[t] \notin {"unborn", "dead"}}

\* C24: whatever start() and stop() calls the controlling context makes, one
\* after the other, at most one thread of _monitor_loop is alive at a time,
\* and it is the monitor's current thread: the buffer has one appender.
C24_OneLoopThread ==
    /\ Cardinality(Running) <= 1
    /\ \A t \in Running : thread = t

\* C24 witness: the join of stop() has timed out on a thread still opening
\* the port, and a start() that followed has found it alive and returned
\* True.
C24_Witness ==
    /\ stopped
    /\ ctl_pc = "idle"
    /\ thread = 1
    /\ loop_pc[1] = "connect"
    /\ start_result = "true"

\* C25: the error message changes only when a thread fails to open the port,
\* no step of start() or stop() changes it, and once it is not empty it stays
\* so.
C25_ErrorMessageKept ==
    [][/\ error_message' # error_message =>
            \E t \in Threads : loop_pc[t] = "connect" /\ loop_pc'[t] = "finally"
       /\ error_message # "" => error_message' # ""]_vars

\* C25 witness: the first start() failed to open the port, the second one
\* succeeded: the monitor is connected and reports the earlier error.
C25_Witness ==
    /\ thread = 2
    /\ ConnectFailed(1)
    /\ connected
    /\ error_message # ""
    /\ start_result = "true"

\* the context stands inside a "with self._data_condition" block (a reader
\* suspended in wait() does not)
InBlock(ctx) ==
    \/ \E t \in Threads :
        /\ ctx = ThreadCtx(t)
        /\ loop_pc[t] \in {"data_append", "cleanup", "notify", "unlock"}
    \/ \E r \in Readers :
        /\ ctx = ReaderCtx(r)
        /\ rpc[r] \in {"data", "latest_entry", "wait", "woken"}

\* the step the holder of the lock takes next
HolderStep ==
    \/ \E t \in Threads : lock = ThreadCtx(t) /\ Writer(t)
    \/ \E r \in Readers : lock = ReaderCtx(r) /\ Reader(r)

\* the thread stands before its block with an entry to append
WantsToAppend(t) == loop_pc[t] = "append"

\* C23: one lock guards the buffer.  At most one context is inside a block
\* at a time, and it is the holder of the lock; a reader suspended in
\* wait_for_new_data does not hold the lock; a thread with an entry to append
\* enters its block whenever no reader is inside one, however many readers
\* are suspended; the holder of the lock can always take its next step, so
\* no interleaving ends with every context blocked; the buffer changes only
\* in steps of the thread that holds the lock, and a reader is given a value
\* only while it holds the lock, so never between the append and the
\* pruning of the thread.
C23_OneLockGuardsBuffer ==
    /\ [](\A c1, c2 \in Contexts : InBlock(c1) /\ InBlock(c2) => c1 = c2)
    /\ [](\A c \in Contexts : InBlock(c) <=> lock = c)
    /\ [](\A r \in Readers : rpc[r] = "waiting" => lock # ReaderCtx(r))
    /\ [](\A t \in Threads :
            /\ WantsToAppend(t)
            /\ \A r \in Readers : ~InBlock(ReaderCtx(r))
            => ENABLED monitor_loop_lock(t))
    /\ [](lock # Free => ENABLED HolderStep)
    /\ [][/\ data' # data => \E t \in Threads : lock = ThreadCtx(t)
          /\ returned' # returned =>
                /\ \E r \in Readers : lock = ReaderCtx(r)
                /\ \A t \in Threads : ~InBlock(ThreadCtx(t))]_vars

\* C23 witness: the thread is inside its block, about to prune, while one
\* reader is suspended in wait_for_new_data and the other, its wait timed
\* out, stands before the lock.
C23_Witness ==
    /\ loop_pc[1] = "cleanup"
    /\ lock = ThreadCtx(1)
    /\ rpc[1] = "waiting"
    /\ rpc[2] = "timedout"

============================================================================
